---- MODULE Spec2Model ----
(***************************************************************************)
(* puzzgrid-button: selection of the next unseen grid id.                  *)
(*                                                                         *)
(*   main.py   SavedIDs, get_next_grid_id, open_next_grid                  *)
(*   api.py    PuzzGridAPIRequest, Model.from_response and its subclasses, *)
(*             get_grids (generator), get_weekly, get_daily                *)
(*   config.py GRID_SEARCH_SIZE, OLDEST_ID                                 *)
(*                                                                         *)
(* One press of the button runs open_next_grid.  The run is cut at the     *)
(* points where the program waits for the remote service, so the payload   *)
(* of every request is an input chosen when the request is issued: any     *)
(* body, well-formed or not, or a failure of the transport.  Runs follow   *)
(* one another (the callback is not re-entered), each loading the file     *)
(* the earlier ones wrote.  Variables marked "history" record what a run   *)
(* has done; they guard no action.                                         *)
(***************************************************************************)
EXTENDS Integers, Sequences, FiniteSets, TLC

(***************************************************************************)
(* Bounds of the model.  config.GRID_SEARCH_SIZE is 50 and                 *)
(* api.GRIDS_PER_PAGE is 10; get_grids uses them only in the page count    *)
(* ceil(max_results / GRIDS_PER_PAGE) and in the cap test, so both range   *)
(* over small values that give one page and several pages.                 *)
(***************************************************************************)
NumIds == 2          \* how many distinct grid ids the remote can serve
MaxRows == 2         \* most rows in one /grids page payload
MaxResults == 2      \* max_results ranges over 1..MaxResults
MaxPerPage == 2      \* GRIDS_PER_PAGE ranges over 1..MaxPerPage
MaxAdds == 4         \* most lines SavedIDs.add appends to the file

(***************************************************************************)
(* config.py                                                               *)
(***************************************************************************)
OLDEST_ID == 95546

Ids == (OLDEST_ID - 1)..(OLDEST_ID + NumIds - 2)

\* The catalog: a grid keeps the creation timestamp it was given, and ids
\* are handed out in creation order.
DateOf(i) == i - OLDEST_ID + 2

(***************************************************************************)
(* Python values.  Optional[T] is a record with a flag; a JSON null        *)
(* scalar is Null, a JSON null in the place of an object is JsonNull.      *)
(***************************************************************************)
None == [none |-> TRUE]
Some(x) == [none |-> FALSE, val |-> x]

Null == -1
JsonNull == [null |-> TRUE]

(***************************************************************************)
(* Payloads the remote service can answer with.  Scalar fields other than  *)
(* id and date carry one fixed value (1) or null.                          *)
(***************************************************************************)
GridPayload(i, d) ==
    [id |-> i, creator |-> 1, difficulty |-> 1, quality |-> 1,
     country |-> 1, date |-> d, user_id |-> 1, tags |-> 1]

ValidGridPayloads == {GridPayload(i, DateOf(i)) : i \in Ids}

InvalidGridPayloads ==
    { [id |-> OLDEST_ID, creator |-> 1, difficulty |-> 1, quality |-> 1,
       country |-> 1, date |-> 1, user_id |-> 1],             \* no "tags" key
      [id |-> OLDEST_ID, creator |-> 1, difficulty |-> 1, quality |-> 1,
       country |-> Null, date |-> NumIds, user_id |-> 1, tags |-> 1] }

GridPayloads == ValidGridPayloads \cup InvalidGridPayloads \cup {JsonNull}

SeqsUpTo(S, n) == UNION {[1..k -> S] : k \in 0..n}

SpecialPayload(i) == [id |-> i, name |-> 1, creation_time |-> 1, type |-> 1]

ValidSpecialPayloads == {SpecialPayload(i) : i \in Ids}

InvalidSpecialPayloads ==
    { [id |-> OLDEST_ID, name |-> 1, creation_time |-> 1],    \* no "type" key
      [id |-> OLDEST_ID, name |-> Null, creation_time |-> 1, type |-> 1],
      JsonNull }

SpecialPayloads == ValidSpecialPayloads \cup InvalidSpecialPayloads

\* Bodies of /gridofthex: both halves, or the "day" half missing.
GridOfTheXBodies ==
    {[week |-> w, day |-> d] : w \in SpecialPayloads, d \in SpecialPayloads}
    \cup {[week |-> w] : w \in ValidSpecialPayloads}

\* Bodies of /grids: a "rows" list, or an error object without "rows".
GridsBodies ==
    {[rows |-> r] : r \in SeqsUpTo(GridPayloads, MaxRows)}
    \cup {[error |-> 1]}

\* PuzzGridAPIRequest.response: requests.get or res.json() raises, or the
\* decoded body is returned whatever the status code was.
Responses(bodies) ==
    {[raise |-> TRUE]} \cup {[raise |-> FALSE, body |-> b] : b \in bodies}

(***************************************************************************)
(* api.py: Model.from_response and the parse_field of each subclass.       *)
(***************************************************************************)
Keys(cls) ==
    CASE cls = "GridModel" ->
            {"id", "creator", "difficulty", "quality",
             "country", "date", "user_id", "tags"}
      [] cls = "SpecialGridModel" -> {"id", "name", "creation_time", "type"}
      [] cls = "ListOfGridsModel" -> {"rows"}
      [] cls = "GridOfTheXModel" -> {"week", "day"}

\* `k in res` raises TypeError when res is None.
IsDict(res) == "null" \notin DOMAIN res

\* sorted(rows, key=lambda g: g.date, reverse=True): stable, newest first.
RECURSIVE InsertByDate(_, _)
InsertByDate(g, s) ==
    IF s = << >> THEN <<g>>
    ELSE IF Head(s).date > g.date
         THEN <<Head(s)>> \o InsertByDate(g, Tail(s))
         ELSE <<g>> \o s

\* A parse_field that leaves the rows in source order.
sorted_source_order(s) == s

RECURSIVE sorted(_)
sorted(s) ==
    IF s = << >> THEN << >>
    ELSE InsertByDate(Head(s), sorted(Tail(s)))

\* [g for g in rows if g is not None]
RECURSIVE FilterParsed(_)
FilterParsed(s) ==
    IF s = << >> THEN << >>
    ELSE IF Head(s).none THEN FilterParsed(Tail(s))
         ELSE <<Head(s).val>> \o FilterParsed(Tail(s))

RECURSIVE from_response(_, _)
RECURSIVE parse_field(_, _, _)

\* The value a field parses to, as Optional: None stands for Python's None.
parse_field(cls, key, value) ==
    CASE cls = "GridModel" ->
            IF value = Null THEN None ELSE Some(value)
      [] cls = "SpecialGridModel" ->
            IF value = Null THEN None ELSE Some(value)
      [] cls = "ListOfGridsModel" ->
            Some(sorted(FilterParsed(
                [n \in 1..Len(value) |-> from_response("GridModel", value[n])])))
      [] cls = "GridOfTheXModel" ->
            from_response("SpecialGridModel", value)

from_response(cls, res) ==
    IF ~ (Keys(cls) \subseteq DOMAIN res) THEN None
    ELSE LET fields == [k \in Keys(cls) |-> parse_field(cls, k, res[k])]
         IN IF \E k \in Keys(cls) : fields[k].none THEN None
            ELSE Some([k \in Keys(cls) |-> fields[k].val])

\* from_response raises TypeError: a key test against a null object.
from_response_raises(cls, res) ==
    \/ ~ IsDict(res)
    \/ /\ cls = "GridOfTheXModel"
       /\ Keys(cls) \subseteq DOMAIN res
       /\ \E k \in Keys(cls) : ~ IsDict(res[k])
    \/ /\ cls = "ListOfGridsModel"
       /\ Keys(cls) \subseteq DOMAIN res
       /\ \E n \in 1..Len(res.rows) : ~ IsDict(res.rows[n])

\* `if not grids` / `if weekly`: a dataclass instance is always truthy.
Truthy(opt) == ~ opt.none

\* A get_weekly that hands back the "day" half.
get_weekly_day(body) ==
    LET grids == from_response("GridOfTheXModel", body)
    IN IF grids.none THEN None ELSE Some(grids.val.day)

\* A get_daily that hands back the "week" half.
get_daily_week(body) ==
    LET grids == from_response("GridOfTheXModel", body)
    IN IF grids.none THEN None ELSE Some(grids.val.week)

\* get_weekly / get_daily on the decoded body of one /gridofthex response.
get_weekly(body) ==
    LET grids == from_response("GridOfTheXModel", body)
    IN IF grids.none THEN None ELSE Some(grids.val.week)

get_daily(body) ==
    LET grids == from_response("GridOfTheXModel", body)
    IN IF grids.none THEN None ELSE Some(grids.val.day)

\* A page count that is one too many when the division is exact.
ceil_div_floor_plus_one(a, b) == (a \div b) + 1

\* range(1, 1 + ceil(max_results / GRIDS_PER_PAGE)) has this many pages.
ceil_div(a, b) == (a + b - 1) \div b

\* A cap test that is off by one.
CapReached_gt(total, max) == total > max

\* `if total_grids >= max_results` in front of every yield.
CapReached(total, max) == total >= max

(***************************************************************************)
(* main.py: SavedIDs.  The file is a sequence of characters.               *)
(***************************************************************************)
Digits == <<"0", "1", "2", "3", "4", "5", "6", "7", "8", "9">>

\* A str that writes the last digit only.
str_units(n) == <<Digits[(n % 10) + 1]>>

RECURSIVE str(_)
str(n) ==
    IF n < 10 THEN <<Digits[n + 1]>>
    ELSE str(n \div 10) \o <<Digits[(n % 10) + 1]>>

DigitVal(c) == CHOOSE d \in 0..9 : Digits[d + 1] = c

RECURSIVE int(_)
int(s) ==
    IF Len(s) = 1 THEN DigitVal(s[1])
    ELSE 10 * int(SubSeq(s, 1, Len(s) - 1)) + DigitVal(s[Len(s)])

\* l.strip(): whitespace removed at both ends.
RECURSIVE strip(_)
strip(l) ==
    IF l = << >> THEN l
    ELSE IF Head(l) = "\n" THEN strip(Tail(l))
    ELSE IF l[Len(l)] = "\n" THEN strip(SubSeq(l, 1, Len(l) - 1))
    ELSE l

\* `for l in f`: the lines of the file, each with its newline.
RECURSIVE readlines(_, _)
readlines(f, cur) ==
    IF f = << >> THEN (IF cur = << >> THEN << >> ELSE <<cur>>)
    ELSE IF Head(f) = "\n"
         THEN <<Append(cur, "\n")>> \o readlines(Tail(f), << >>)
         ELSE readlines(Tail(f), Append(cur, Head(f)))

\* { int(l.strip()) for l in f }
SavedIDs_load(f) ==
    LET ls == readlines(f, << >>)
    IN {int(strip(ls[n])) : n \in 1..Len(ls)}

\* int('') raises ValueError on a blank line.
SavedIDs_load_raises(f) ==
    LET ls == readlines(f, << >>)
    IN \E n \in 1..Len(ls) : strip(ls[n]) = << >>

\* An add that updates the set in memory only.
SavedIDs_add_memory_only(idset, f, id) ==
    [ids |-> idset \cup {id}, file |-> f]

\* SavedIDs.add: the set in memory and the file after the call.
SavedIDs_add(idset, f, id) ==
    [ids |-> idset \cup {id}, file |-> f \o str(id) \o <<"\n">>]

\* A check that leaves out the SeenSet.
Unseen_any(rec, idset) == Truthy(rec)

\* `x and not x.id in IDs.ids`
Unseen(rec, idset) == Truthy(rec) /\ rec.val.id \notin idset

(***************************************************************************)
(* State.                                                                  *)
(***************************************************************************)
VARIABLES
    max_results,      \* config.GRID_SEARCH_SIZE, passed to get_grids
    GRIDS_PER_PAGE,   \* api.GRIDS_PER_PAGE
    file_exists,      \* COMPLETED_GRIDS_FILE exists
    file,             \* its characters
    pc,               \* where the current run of open_next_grid stands
    ids,              \* IDs.ids
    weekly,           \* local of get_next_grid_id
    daily,            \* local of get_next_grid_id
    page,             \* get_grids: last page number requested
    rows,             \* get_grids: rows of grids.rows not yet iterated
    total_grids,      \* get_grids: total_grids
    result,           \* grid_id in open_next_grid
    sorry,            \* the "no new grids" message was printed
    opened,           \* webbrowser.open was called with grid_id
    exc,              \* the exception that ended the run, or "none"
    startIds,         \* history: IDs.ids as loaded at the start of the run
    returned,         \* history: ids returned by earlier runs
    specialReqs,      \* history: requests sent to /gridofthex this run
    remoteWeekly,     \* history: "week" id of the pair get_weekly received
    remoteDaily,      \* history: "day" id of the pair get_daily received
    pagesLog,         \* history: the /grids pages requested this run
    yieldCount,       \* history: records get_grids yielded this run
    lastYield,        \* history: the record yielded last, with its page
    prevYield,        \* history: the record yielded before that one
    call_cls,         \* a single call cls.from_response(res): cls,
    call_res,         \*   res,
    call_out          \*   and how the call ended

config == <<max_results, GRIDS_PER_PAGE>>
storage == <<file_exists, file>>
locals == <<ids, weekly, daily>>
gen == <<page, rows, total_grids>>
outcome == <<result, sorry, opened>>
specials == <<specialReqs, remoteWeekly, remoteDaily>>
yields == <<yieldCount, lastYield, prevYield>>
history == <<startIds, returned, specials, pagesLog, yields>>

call == <<call_cls, call_res, call_out>>

vars == <<config, storage, pc, locals, gen, outcome, exc, history, call>>

\* No run of open_next_grid is under way and none has left anything behind.
AtRest ==
    /\ pc = "idle"
    /\ ids = {}
    /\ weekly = None
    /\ daily = None
    /\ page = 0
    /\ rows = << >>
    /\ total_grids = 0
    /\ result = None
    /\ sorry = FALSE
    /\ opened = FALSE
    /\ exc = "none"
    /\ startIds = {}
    /\ returned = {}
    /\ specialReqs = 0
    /\ remoteWeekly = None
    /\ remoteDaily = None
    /\ pagesLog = << >>
    /\ yieldCount = 0
    /\ lastYield = None
    /\ prevYield = None

\* No single call of from_response is looked at.
NoCall ==
    /\ call_cls = "none"
    /\ call_res = JsonNull
    /\ call_out = [kind |-> "none"]

Init ==
    /\ max_results \in 1..MaxResults
    /\ GRIDS_PER_PAGE \in 1..MaxPerPage
    /\ file_exists \in BOOLEAN
    /\ file = << >>
    /\ AtRest
    /\ NoCall

\* The run ends by an exception leaving get_next_grid_id.
Raise(e) ==
    /\ pc' = "raised"
    /\ exc' = e

\* A return whose add opens the file with 'w' and so truncates it.
ReturnId_truncating(id) ==
    /\ ids' = ids \cup {id}
    /\ file' = str(id) \o <<"\n">>
    /\ result' = Some(id)
    /\ pc' = "returned"
    /\ exc' = exc

\* IDs.add(id); return id
ReturnId(id) ==
    LET saved == SavedIDs_add(ids, file, id)
    IN /\ ids' = saved.ids
       /\ file' = saved.file
       /\ result' = Some(id)
       /\ pc' = "returned"
       /\ exc' = exc

\* What the remote sent in one half of a /gridofthex body, read off the
\* payload itself: the id when both halves are complete records.
RemoteHalf(body, half) ==
    IF /\ {"week", "day"} \subseteq DOMAIN body
       /\ body.week \in ValidSpecialPayloads
       /\ body.day \in ValidSpecialPayloads
    THEN Some(body[half].id)
    ELSE None

(***************************************************************************)
(* main.py: the button is pressed; open_next_grid calls get_next_grid_id,  *)
(* which constructs SavedIDs from the file.                                *)
(***************************************************************************)
SavedIDs_init ==
    /\ pc = "idle"
    /\ file_exists' = TRUE
    /\ file' = file
    /\ IF SavedIDs_load_raises(file)
       THEN Raise("ValueError") /\ ids' = {} /\ startIds' = {}
       ELSE /\ ids' = SavedIDs_load(file)
            /\ startIds' = SavedIDs_load(file)
            /\ pc' = "get_weekly"
            /\ exc' = "none"
    /\ result' = None
    /\ sorry' = FALSE
    /\ opened' = FALSE
    /\ UNCHANGED <<call, config, weekly, daily, gen>>
    /\ UNCHANGED <<returned, specials, pagesLog, yields>>

(***************************************************************************)
(* main.py 36-39: weekly = api.get_weekly() and the weekly check.          *)
(***************************************************************************)
WeeklyStage ==
    /\ pc = "get_weekly"
    /\ specialReqs' = specialReqs + 1
    /\ \E resp \in Responses(GridOfTheXBodies) :
          IF resp.raise
          THEN /\ Raise("RequestException")
               /\ UNCHANGED <<storage, locals, result, remoteWeekly>>
          ELSE /\ remoteWeekly' = RemoteHalf(resp.body, "week")
               /\ IF from_response_raises("GridOfTheXModel", resp.body)
                  THEN /\ Raise("TypeError")
                       /\ UNCHANGED <<storage, locals, result>>
                  ELSE /\ weekly' = get_weekly(resp.body)
                       /\ daily' = daily
                       /\ file_exists' = file_exists
                       /\ IF Unseen(weekly', ids)
                          THEN ReturnId(weekly'.val.id)
                          ELSE /\ pc' = "get_daily"
                               /\ UNCHANGED <<ids, file, result, exc>>
    /\ UNCHANGED <<call, config, gen, sorry, opened>>
    /\ UNCHANGED <<startIds, returned, remoteDaily, pagesLog, yields>>

(***************************************************************************)
(* main.py 41-44: daily = api.get_daily() and the daily check; otherwise   *)
(* api.get_grids(...) is called, which only creates the generator.         *)
(***************************************************************************)
DailyStage ==
    /\ pc = "get_daily"
    /\ specialReqs' = specialReqs + 1
    /\ \E resp \in Responses(GridOfTheXBodies) :
          IF resp.raise
          THEN /\ Raise("RequestException")
               /\ UNCHANGED <<storage, locals, result, remoteDaily>>
          ELSE /\ remoteDaily' = RemoteHalf(resp.body, "day")
               /\ IF from_response_raises("GridOfTheXModel", resp.body)
                  THEN /\ Raise("TypeError")
                       /\ UNCHANGED <<storage, locals, result>>
                  ELSE /\ daily' = get_daily(resp.body)
                       /\ weekly' = weekly
                       /\ file_exists' = file_exists
                       /\ IF Unseen(daily', ids)
                          THEN ReturnId(daily'.val.id)
                          ELSE /\ pc' = "get_grids"
                               /\ UNCHANGED <<ids, file, result, exc>>
    /\ UNCHANGED <<call, config, gen, sorry, opened>>
    /\ UNCHANGED <<startIds, returned, remoteWeekly, pagesLog, yields>>

(***************************************************************************)
(* api.py 158-169: the generator takes the next page number, requests the  *)
(* page and parses it.                                                     *)
(***************************************************************************)
\* ListOfGridsModel.from_response on every body of /grids, computed once.
ListOfGridsModel_from_response ==
    [b \in GridsBodies |-> from_response("ListOfGridsModel", b)]

PageKind(grids) ==
    IF ~ Truthy(grids) THEN "invalid"
    ELSE IF grids.val.rows = << >> THEN "empty" ELSE "rows"

RequestPage ==
    /\ pc = "get_grids"
    /\ rows = << >>
    /\ page < ceil_div(max_results, GRIDS_PER_PAGE)
    /\ page' = page + 1
    /\ \E resp \in Responses(GridsBodies) :
          IF resp.raise
          THEN /\ Raise("RequestException")
               /\ UNCHANGED <<rows, pagesLog>>
          ELSE IF from_response_raises("ListOfGridsModel", resp.body)
          THEN /\ Raise("TypeError")
               /\ UNCHANGED <<rows, pagesLog>>
          ELSE LET grids == ListOfGridsModel_from_response[resp.body]
               IN /\ pagesLog' = Append(pagesLog,
                                    [page |-> page + 1, kind |-> PageKind(grids)])
                  /\ IF ~ Truthy(grids)
                     THEN \* raise StopIteration inside a generator
                          /\ Raise("RuntimeError")
                          /\ rows' = rows
                     ELSE /\ rows' = grids.val.rows
                          /\ UNCHANGED <<pc, exc>>
    /\ UNCHANGED <<call, config, storage, locals, total_grids, outcome>>
    /\ UNCHANGED <<startIds, returned, specials, yields>>

(***************************************************************************)
(* api.py 171-175 with main.py 51-54: the cap test, the yield of the next  *)
(* row, and the loop body of get_next_grid_id on the yielded grid.  The    *)
(* generator is resumed (total_grids += 1) only if the loop goes on.       *)
(***************************************************************************)
YieldRow ==
    /\ pc = "get_grids"
    /\ rows # << >>
    /\ IF CapReached(total_grids, max_results)
       THEN \* raise StopIteration inside a generator
            /\ Raise("RuntimeError")
            /\ UNCHANGED <<storage, ids, rows, total_grids, result, yields>>
       ELSE LET grid == Head(rows)
            IN /\ yieldCount' = yieldCount + 1
               /\ lastYield' = Some([id |-> grid.id, date |-> grid.date,
                                      page |-> page])
               /\ prevYield' = lastYield
               /\ file_exists' = file_exists
               /\ IF grid.id \notin ids
                  THEN /\ ReturnId(grid.id)
                       /\ UNCHANGED <<rows, total_grids>>
                  ELSE /\ rows' = Tail(rows)
                       /\ total_grids' = total_grids + 1
                       /\ UNCHANGED <<ids, file, result, pc, exc>>
    /\ UNCHANGED <<call, config, weekly, daily, page, sorry, opened>>
    /\ UNCHANGED <<startIds, returned, specials, pagesLog>>

(***************************************************************************)
(* api.py 177-179 with main.py 56: the page range is used up, the          *)
(* generator finishes and get_next_grid_id returns None.                   *)
(***************************************************************************)
Exhausted ==
    /\ pc = "get_grids"
    /\ rows = << >>
    /\ page >= ceil_div(max_results, GRIDS_PER_PAGE)
    /\ result' = None
    /\ pc' = "returned"
    /\ UNCHANGED <<call, config, storage, locals, gen, sorry, opened, exc, history>>

(***************************************************************************)
(* main.py 59-63: open_next_grid after get_next_grid_id has returned.      *)
(* The locals of the finished call are gone.                               *)
(***************************************************************************)
\* `not grid_id or grid_id < config.OLDEST_ID`
NoNewGrid(grid_id) ==
    grid_id.none \/ grid_id.val = 0 \/ grid_id.val < OLDEST_ID

Forget ==
    /\ ids' = {}
    /\ weekly' = None
    /\ daily' = None
    /\ page' = 0
    /\ rows' = << >>
    /\ total_grids' = 0
    /\ startIds' = {}
    /\ specialReqs' = 0
    /\ remoteWeekly' = None
    /\ remoteDaily' = None
    /\ pagesLog' = << >>
    /\ yieldCount' = 0
    /\ lastYield' = None
    /\ prevYield' = None

open_next_grid ==
    /\ pc = "returned"
    /\ sorry' = NoNewGrid(result)
    /\ opened' = TRUE
    /\ returned' = IF result.none THEN returned ELSE returned \cup {result.val}
    /\ pc' = "idle"
    /\ Forget
    /\ UNCHANGED <<call, config, storage, result, exc>>

\* The exception leaves open_next_grid; the main loop reports it and goes on.
CallbackRaised ==
    /\ pc = "raised"
    /\ pc' = "idle"
    /\ Forget
    /\ UNCHANGED <<call, config, storage, outcome, exc, returned>>

Next ==
    \/ SavedIDs_init
    \/ WeeklyStage
    \/ DailyStage
    \/ RequestPage
    \/ YieldRow
    \/ Exhausted
    \/ open_next_grid
    \/ CallbackRaised

Spec == Init /\ [][Next]_vars

TypeOK ==
    /\ pc \in {"idle", "get_weekly", "get_daily", "get_grids", "returned", "raised"}
    /\ ids \subseteq Ids
    /\ total_grids \in 0..max_results
    /\ page \in 0..ceil_div(max_results, GRIDS_PER_PAGE)

(***************************************************************************)
(* api.py 59-71 on its own: one call cls.from_response(res) for a record   *)
(* shape and a decoded JSON payload, and what the call ends in.            *)
(***************************************************************************)
\* Every object over the keys of a flat record shape: each key absent,
\* null or holding a value.
FlatPayloads(cls) == UNION {[K -> {Null, 1}] : K \in SUBSET Keys(cls)}

\* Bodies of /gridofthex with the "week" key missing.
DayOnlyBodies == {[day |-> d] : d \in ValidSpecialPayloads}

Payloads(cls) ==
    CASE cls = "GridModel" -> FlatPayloads(cls) \cup GridPayloads
      [] cls = "SpecialGridModel" -> FlatPayloads(cls) \cup SpecialPayloads
      [] cls = "ListOfGridsModel" -> GridsBodies \cup {JsonNull}
      [] cls = "GridOfTheXModel" ->
            GridOfTheXBodies \cup DayOnlyBodies \cup {JsonNull}

Models == {"GridModel", "SpecialGridModel", "ListOfGridsModel", "GridOfTheXModel"}

\* How the call ends: an exception, None, or an instance.
CallOutcome(cls, res) ==
    IF from_response_raises(cls, res) THEN [kind |-> "TypeError"]
    ELSE LET r == from_response(cls, res)
         IN IF r.none THEN [kind |-> "None"]
            ELSE [kind |-> "instance", val |-> r.val]

Model_from_response ==
    /\ call_cls = "none"
    /\ \E cls \in Models : \E res \in Payloads(cls) :
          /\ call_cls' = cls
          /\ call_res' = res
          /\ call_out' = CallOutcome(cls, res)
    /\ UNCHANGED <<config, storage, pc, locals, gen, outcome, exc, history>>

InitParse ==
    /\ max_results = 1
    /\ GRIDS_PER_PAGE = 1
    /\ file_exists = FALSE
    /\ file = << >>
    /\ AtRest
    /\ NoCall

NextParse == Model_from_response

SpecParse == InitParse /\ [][NextParse]_vars

(***************************************************************************)
(* main.py 11-29 on its own: a SavedIDs object (the writer) is constructed *)
(* from the file, ids are added to it, and a second SavedIDs (the reader)  *)
(* is constructed from the same file.  ids is the writer's set, startIds   *)
(* the reader's, returned the ids passed to add so far.                    *)
(***************************************************************************)
\* The ids passed to add: ids of grids, and short ones of other lengths.
AddIds == Ids \cup {0, 10}

SavedIDs_construct ==
    /\ pc = "idle"
    /\ file_exists' = TRUE
    /\ file' = file
    /\ ids' = SavedIDs_load(file)
    /\ pc' = "writer"
    /\ UNCHANGED <<call, config, weekly, daily, gen, outcome, exc, history>>

SavedIDs_add_call ==
    /\ pc = "writer"
    /\ Len(readlines(file, << >>)) < MaxAdds
    /\ \E id \in AddIds :
          LET saved == SavedIDs_add(ids, file, id)
          IN /\ ids' = saved.ids
             /\ file' = saved.file
             /\ returned' = returned \cup {id}
    /\ UNCHANGED <<call, config, file_exists, pc, weekly, daily, gen, outcome, exc>>
    /\ UNCHANGED <<startIds, specials, pagesLog, yields>>

SavedIDs_reconstruct ==
    /\ pc = "writer"
    /\ startIds' = SavedIDs_load(file)
    /\ pc' = "reader"
    /\ UNCHANGED <<call, config, storage, locals, gen, outcome, exc>>
    /\ UNCHANGED <<returned, specials, pagesLog, yields>>

\* Both objects are dropped; the file stays.
SavedIDs_discard ==
    /\ pc = "reader"
    /\ pc' = "idle"
    /\ ids' = {}
    /\ startIds' = {}
    /\ UNCHANGED <<call, config, storage, weekly, daily, gen, outcome, exc>>
    /\ UNCHANGED <<returned, specials, pagesLog, yields>>

InitSaved ==
    /\ max_results = 1
    /\ GRIDS_PER_PAGE = 1
    /\ file_exists \in BOOLEAN
    /\ file = << >>
    /\ AtRest
    /\ NoCall

NextSaved ==
    \/ SavedIDs_construct
    \/ SavedIDs_add_call
    \/ SavedIDs_reconstruct
    \/ SavedIDs_discard

SpecSaved == InitSaved /\ [][NextSaved]_vars

(***************************************************************************)
(* Properties.                                                             *)
(***************************************************************************)
Ended == pc \in {"returned", "raised"}
PastWeekly == pc \notin {"idle", "get_weekly"}
PastDaily == pc \notin {"idle", "get_weekly", "get_daily"}
ReturnedId == pc = "returned" /\ ~ result.none

\* C1: when get_weekly received a complete pair and the id of its "week"
\* half was not in the SeenSet loaded at the start of get_next_grid_id, the
\* call returns that id, whatever the "day" half and the listing hold.
C1_WeeklyFirst ==
    (PastWeekly /\ ~ remoteWeekly.none /\ remoteWeekly.val \notin startIds)
        => (pc = "returned" /\ result = Some(remoteWeekly.val))

C1_Witness ==
    /\ pc = "returned"
    /\ specialReqs = 1
    /\ startIds # {}
    /\ ~ remoteWeekly.none
    /\ remoteWeekly.val \notin startIds
    /\ result = Some(remoteWeekly.val)

\* C2: when the pair is available, the weekly id is in the SeenSet and the
\* daily id (of the pair get_daily received) is not, the call returns the
\* daily id, whatever the listing holds.
C2_DailySecond ==
    (/\ PastDaily
     /\ ~ remoteWeekly.none /\ remoteWeekly.val \in startIds
     /\ ~ remoteDaily.none /\ remoteDaily.val \notin startIds)
        => (pc = "returned" /\ result = Some(remoteDaily.val))

C2_Witness ==
    /\ pc = "returned"
    /\ specialReqs = 2
    /\ ~ remoteWeekly.none /\ remoteWeekly.val \in startIds
    /\ ~ remoteDaily.none /\ remoteDaily.val \notin startIds
    /\ result = Some(remoteDaily.val)

\* C3: every run starts from a SeenSet that holds the ids returned by the
\* earlier runs, and an id a run returns was not in the SeenSet it started
\* from: no id is returned by two runs.
C3_NeverRepeated ==
    /\ pc # "idle" => returned \subseteq startIds
    /\ ReturnedId => (result.val \notin startIds /\ result.val \notin returned)

C3_Witness ==
    /\ ReturnedId
    /\ returned # {}
    /\ returned \subseteq startIds
    /\ result.val \notin returned

\* C4: if the weekly id, the daily id and every id the listing yields are in
\* the SeenSet, and every page arrived and parsed, the call ends by
\* returning None and not by an error.
C4_AllSeenReturnsNone ==
    (/\ Ended
     /\ ~ remoteWeekly.none /\ remoteWeekly.val \in startIds
     /\ ~ remoteDaily.none /\ remoteDaily.val \in startIds
     /\ ~ lastYield.none => lastYield.val.id \in startIds
     /\ \A n \in 1..Len(pagesLog) : pagesLog[n].kind # "invalid"
     /\ exc \notin {"RequestException", "TypeError", "ValueError"})
        => (pc = "returned" /\ result = None)

\* C5: a transport failure or a payload that does not validate never reaches
\* get_next_grid_id as an exception.
C5_FetchFailuresAbsorbed ==
    ~ (/\ pc = "raised"
       /\ \/ exc \in {"RequestException", "TypeError"}
          \/ /\ exc = "RuntimeError"
             /\ pagesLog # << >>
             /\ pagesLog[Len(pagesLog)].kind = "invalid")

\* C6: after a page that parsed to an invalid result or to an empty list of
\* rows, no later page is requested and no record is yielded.
C6_BadPageIsLast ==
    /\ \A n \in 1..(Len(pagesLog) - 1) : pagesLog[n].kind = "rows"
    /\ \A n \in 1..Len(pagesLog) :
          (pagesLog[n].kind # "rows" /\ ~ lastYield.none)
              => lastYield.val.page < pagesLog[n].page

\* C7: get_grids yields at most max_results records over all pages.
C7_AtMostMaxResults == yieldCount <= max_results

C7_Witness ==
    /\ pc = "raised"
    /\ exc = "RuntimeError"
    /\ rows # << >>
    /\ yieldCount = max_results
    /\ Len(pagesLog) > 1

\* Two records yielded one after the other.
YieldedPair == ~ prevYield.none /\ ~ lastYield.none

\* C8 as stated: the records are considered in descending timestamp order
\* over the whole yielded sequence, page boundaries included: every record
\* is at most as new as the one yielded before it.
C8_DescendingAcrossPages ==
    YieldedPair => prevYield.val.date >= lastYield.val.date

\* C8 amended: pages are taken in request order and the records of one page
\* in descending timestamp order; the id returned is that of the first
\* unseen record in this order, and no record left in its page is newer.
C8_DescendingWithinPage ==
    /\ YieldedPair =>
          /\ prevYield.val.page <= lastYield.val.page
          /\ prevYield.val.page = lastYield.val.page
                => prevYield.val.date >= lastYield.val.date
          /\ prevYield.val.id \in startIds
    /\ (ReturnedId /\ yieldCount > 0) =>
          /\ lastYield.val.id = result.val
          /\ result.val \notin startIds
          /\ rows # << >>
          /\ rows[1].id = result.val
          /\ \A n \in 1..Len(rows) : rows[n].date <= rows[1].date

C8_Witness ==
    /\ ReturnedId
    /\ YieldedPair
    /\ prevYield.val.page = lastYield.val.page
    /\ prevYield.val.date > lastYield.val.date
    /\ lastYield.val.id = result.val

\* C9: when get_next_grid_id returns an id, the id is in the set in memory
\* and in the file, so that loading the file again gives a set holding it.
C9_SavedBeforeReturn ==
    ReturnedId =>
        /\ result.val \in ids
        /\ file_exists
        /\ result.val \in SavedIDs_load(file)
        /\ SavedIDs_load(file) = ids

C9_Witness ==
    /\ ReturnedId
    /\ yieldCount > 0
    /\ startIds # {}
    /\ result.val \in SavedIDs_load(file)
    /\ result.val \notin startIds

\* C10: one run sends exactly one request to /gridofthex, and the weekly
\* and daily records checked come from that one response.
C10_OneSpecialRequest ==
    /\ specialReqs <= 1
    /\ pc \in {"get_daily", "get_grids", "returned"} => specialReqs = 1


Called == call_cls # "none"
MissingKey == ~ (Keys(call_cls) \subseteq DOMAIN call_res)
FieldParsesToNone ==
    /\ ~ MissingKey
    /\ \E k \in Keys(call_cls) : parse_field(call_cls, k, call_res[k]).none

\* C11: every call cls.from_response(res) returns; it returns None when a
\* required key is missing from res or the parse function of a field yields
\* None, and otherwise an instance in which every field of the shape holds
\* the parsed, non-None value.
C11_InstanceOrNone ==
    Called =>
        /\ call_out.kind \in {"instance", "None"}
        /\ (MissingKey \/ FieldParsesToNone) => call_out.kind = "None"
        /\ call_out.kind = "instance" =>
              /\ DOMAIN call_out.val = Keys(call_cls)
              /\ \A k \in Keys(call_cls) :
                    /\ ~ parse_field(call_cls, k, call_res[k]).none
                    /\ call_out.val[k] = parse_field(call_cls, k, call_res[k]).val

RowsCall ==
    /\ call_cls = "ListOfGridsModel"
    /\ IsDict(call_res)
    /\ "rows" \in DOMAIN call_res
ValidRow(r) ==
    /\ IsDict(r)
    /\ Keys("GridModel") \subseteq DOMAIN r
    /\ \A k \in Keys("GridModel") : r[k] # Null
Count(s, v) == Cardinality({n \in 1..Len(s) : s[n] = v})

\* C12: ListOfGridsModel.from_response on a payload with a "rows" list
\* returns an instance whose rows are exactly the valid records of the list,
\* each as often as it occurs there and no invalid one, in descending order
\* of date whatever the order in the payload.
C12_ValidRowsSortedDescending ==
    RowsCall =>
        /\ call_out.kind = "instance"
        /\ LET out == call_out.val.rows
               src == call_res.rows
           IN /\ \A n \in 1..Len(src) :
                    Count(out, src[n]) =
                        IF ValidRow(src[n]) THEN Count(src, src[n]) ELSE 0
              /\ \A n \in 1..Len(out) : Count(src, out[n]) > 0
              /\ \A n \in 1..(Len(out) - 1) : out[n].date >= out[n + 1].date

\* C13: when open_next_grid has found get_next_grid_id's result to be None
\* or below OLDEST_ID it has reported "no new grids" and has not opened a
\* grid page; a below-threshold id is then in the SeenSet the file holds,
\* and no invocation returns an id that an earlier one returned.
C13_NoGridOpenedForNoNewItem ==
    /\ (pc = "idle" /\ sorry) =>
          /\ ~ opened
          /\ ~ result.none => result.val \in SavedIDs_load(file)
    /\ (ReturnedId /\ result.val < OLDEST_ID) => result.val \notin returned

\* C14: a SavedIDs constructed from the file after any sequence of add
\* calls holds the same set as the writer holds in memory, and that set is
\* exactly the set of ids that were passed to add.
C14_RoundTrip ==
    pc = "reader" => (startIds = ids /\ startIds = returned)

C14_Witness ==
    /\ pc = "reader"
    /\ Cardinality(startIds) >= 3
    /\ Len(readlines(file, << >>)) > Cardinality(startIds)

\* C15: get_grids never ends by an exception at its cap test: with
\* max_results records yielded and rows left in the page it yields no more
\* and the consumer's loop finishes; and when the last page of the range
\* has been consumed the run ends by get_next_grid_id returning None.
C15_EndsNormally ==
    /\ yieldCount <= max_results
    /\ (pc = "raised" /\ exc = "RuntimeError") => rows = << >>
    /\ (/\ Ended
        /\ rows = << >>
        /\ page >= ceil_div(max_results, GRIDS_PER_PAGE)
        /\ Len(pagesLog) = page
        /\ pagesLog[page].kind # "invalid")
           => (pc = "returned" /\ result = None)

\* get_next_grid_id has returned the id of a record of the listing.
ReturnedFromListing == ReturnedId /\ ~ lastYield.none

\* C16: within a run the page number goes up by one at a time starting at
\* 1, a page is requested only when no row of the page before is left, page
\* k is requested only if (k - 1) * GRIDS_PER_PAGE < max_results, that is
\* k <= ceil(max_results / GRIDS_PER_PAGE), and when an id of the listing is
\* returned the record comes from the last page requested.
C16_PagesInOrderLazily ==
    [][/\ (page' # page /\ pc = "get_grids") =>
              /\ page' = page + 1
              /\ rows = << >>
              /\ page * GRIDS_PER_PAGE < max_results
              /\ Len(pagesLog') > Len(pagesLog) =>
                    pagesLog'[Len(pagesLog')].page = page'
       /\ (page' # page /\ pc # "get_grids") => page' = 0
       /\ ReturnedFromListing' => lastYield'.val.page = page'
      ]_vars

C16_Witness ==
    /\ ReturnedFromListing
    /\ page = 1
    /\ yieldCount = 1
    /\ ceil_div(max_results, GRIDS_PER_PAGE) > 1

\* get_grids was called in the current run.
BulkEntered == page > 0 \/ pc = "get_grids"
\* The special is unavailable, or its id is in the SeenSet loaded at the start.
UnavailableOrSeen(remote) == remote.none \/ remote.val \in startIds
ReturnedSpecial ==
    /\ ReturnedId
    /\ \/ (specialReqs = 1 /\ remoteWeekly = result)
       \/ (specialReqs = 2 /\ remoteDaily = result)

\* C17: the weekly check is made before the daily request and both before
\* any request to the listing; a run that returns the weekly or the daily
\* id has made no listing request; and the bulk stage is entered exactly
\* when the weekly and the daily are each unavailable or seen, so a run that
\* ends without entering it has returned an unseen special.
C17_StagesInOrder ==
    /\ pc = "get_daily" => (specialReqs = 1 /\ page = 0)
    /\ BulkEntered =>
          /\ specialReqs = 2
          /\ UnavailableOrSeen(remoteWeekly)
          /\ UnavailableOrSeen(remoteDaily)
    /\ ReturnedSpecial => ~ BulkEntered
    /\ (Ended /\ ~ BulkEntered) =>
          /\ ReturnedSpecial
          /\ ~ UnavailableOrSeen(Some(result.val))

\* The body get_weekly / get_daily received lacked a half or held one that
\* is not a complete record.
WeeklyPairDefective ==
    /\ specialReqs >= 1
    /\ remoteWeekly.none
    /\ ~ (specialReqs = 1 /\ exc = "RequestException")
DailyPairDefective ==
    specialReqs = 2 /\ remoteDaily.none /\ exc # "RequestException"

\* C18: when the pair get_weekly received is defective, get_weekly returns
\* None and the run goes on to the daily request; when the pair get_daily
\* received is defective, get_daily returns None and the run goes on to the
\* listing; neither stage returns an id or ends in an exception.
C18_DefectivePairFallsThrough ==
    /\ WeeklyPairDefective =>
          /\ weekly = None
          /\ specialReqs = 2 \/ pc = "get_daily"
    /\ DailyPairDefective =>
          /\ daily = None
          /\ BulkEntered

\* A run of get_next_grid_id is under way.
Running == pc \in {"get_weekly", "get_daily", "get_grids"}

\* C19: a step of a run of get_next_grid_id leaves the SeenSet and the file
\* alone unless it is the step that returns an id, which adds exactly that
\* id to the set and appends its line to the file; a run that returns None
\* ends with the set it loaded; and the set the file holds never loses an
\* id, whatever the step.
C19_SeenSetGrowsByReturnedId ==
    [][/\ Running =>
              IF pc' = "returned" /\ ~ result'.none
              THEN /\ ids' = ids \cup {result'.val}
                   /\ ids = startIds
                   /\ file' = file \o str(result'.val) \o <<"\n">>
                   /\ SavedIDs_load(file') = SavedIDs_load(file) \cup {result'.val}
              ELSE /\ ids' = ids
                   /\ ids = startIds
                   /\ file' = file
       /\ file' # file => SavedIDs_load(file) \subseteq SavedIDs_load(file')
      ]_vars

C19_Witness ==
    /\ ReturnedId
    /\ startIds # {}
    /\ result.val \notin startIds
    /\ ids = startIds \cup {result.val}
    /\ SavedIDs_load(file) = ids
====
